---- MODULE Spec2Model ----
(***************************************************************************)
(* Model of the Telegram DEX swap bot (src/src/TelegramBot.py and the      *)
(* adapters it calls) for one user's session.                              *)
(*                                                                         *)
(* The session is what the code keeps per user: the aiogram FSM state      *)
(* (fsm_state), the FSM data dict (data, a function whose domain is the    *)
(* set of keys present), the TonConnect connector of the user (connector)  *)
(* and the messages alive in the private chat (chat).  window is the kind  *)
(* of the bot message sent last, i.e. the screen the user looks at.        *)
(*                                                                         *)
(* Every handler is an operator from the session it finds (and the         *)
(* outcomes of the external calls it makes) to the session it leaves, with *)
(* the ordered list of adapter calls and renders it made (effects).  The   *)
(* action of a handler applies the operator to the current session.        *)
(*                                                                         *)
(* Spec runs every handler to completion before the next one starts.       *)
(* SpecConc runs handlers as asyncio tasks that interleave at awaits.      *)
(* SpecUsers runs handlers for two users on the stores the code keys by    *)
(* user id (sessions).                                                     *)
(***************************************************************************)
EXTENDS Integers, Sequences, FiniteSets, TLC

VARIABLES fsm_state, data, connector, chat, window, TOKENS, tasks, sessions

vars == <<fsm_state, data, connector, chat, window, TOKENS, tasks, sessions>>

(***************************************************************************)
(* Bounds                                                                  *)
(***************************************************************************)
\* message ids 1..MaxMsgId; an id is handed out again once nothing alive or
\* stored refers to it (the code only compares and deletes ids)
MaxMsgId == 3
\* rpc request ids 1..MaxReqId, recycled the same way
MaxReqId == 2
\* number of concurrently running handler tasks in SpecConc
MaxTasks == 2

\* Python None for id-valued entries (dict.get of a missing key)
NoId == 0
\* Python None for string-valued entries and for the FSM state
None == "None"

(***************************************************************************)
(* FSM data dict                                                           *)
(***************************************************************************)
EmptyData == [k \in {} |-> None]

Has(d, k) == k \in DOMAIN d

Get(d, k, default) == IF k \in DOMAIN d THEN d[k] ELSE default

\* d.get(k) of a number-valued entry: <<v>>, or <<>> for None
Opt(d, k) == IF k \in DOMAIN d THEN <<d[k]>> ELSE <<>>

\* FSMContext.update_data(**upd): merge, the new entries win
update_data(d, upd) ==
    [k \in (DOMAIN d) \cup (DOMAIN upd) |-> IF k \in DOMAIN upd THEN upd[k] ELSE d[k]]

(***************************************************************************)
(* Token registry                                                          *)
(***************************************************************************)
\* symbol -> address as built by _load_tokens from a successful get_tokens()
LoadedTokens == [TON |-> "addr_TON", USDT |-> "addr_USDT"]

\* the except branch of _load_tokens
EmptyTokens == [k \in {} |-> None]

\* _load_tokens(): ok is whether get_tokens() returned
_load_tokens(ok) == IF ok THEN LoadedTokens ELSE EmptyTokens

\* TOKENS.get(symbol)
TokenAddress(tokens, sym) == IF sym \in DOMAIN tokens THEN tokens[sym] ELSE None

_is_valid_token(tokens, token) == token \in DOMAIN tokens

(***************************************************************************)
(* swap.coffee adapter: get_tokens, get_swap_route and                     *)
(* get_prepared_transaction share one body: the request, then              *)
(* raise_for_status(), then response.json(), inside a try whose except     *)
(* turns a RequestException into SwapCoffeeException                       *)
(***************************************************************************)
\* what the upstream does with a request: answers 2xx with a JSON body,
\* answers with an HTTP error status, is not reached (connection error,
\* timeout), or answers 2xx with a body that is no JSON
Upstream == {"ok", "http_error", "transport_failure", "bad_body"}

\* the adapter without raise_for_status(): the body of an error answer is
\* decoded and returned
adapter_request_NoStatusCheck(upstream) ==
    CASE upstream \in {"ok", "http_error"}
           -> {[raised |-> None, returns |-> "json"]}
      [] upstream = "transport_failure"
           -> {[raised |-> "SwapCoffeeException", returns |-> None]}
      [] upstream = "bad_body"
           -> {[raised |-> "SwapCoffeeException", returns |-> None],
               [raised |-> "ValueError", returns |-> None]}

\* the ways a call can end: the exception that leaves it, or the decoded
\* response.  response.json() on a body that is no JSON raises a
\* RequestException or a plain ValueError, by the version of requests
adapter_request(upstream) ==
    CASE upstream = "ok"
           -> {[raised |-> None, returns |-> "json"]}
      [] upstream \in {"http_error", "transport_failure"}
           -> {[raised |-> "SwapCoffeeException", returns |-> None]}
      [] upstream = "bad_body"
           -> {[raised |-> "SwapCoffeeException", returns |-> None],
               [raised |-> "ValueError", returns |-> None]}

get_tokens(upstream) == adapter_request(upstream)

get_swap_route_request(upstream) == adapter_request(upstream)

get_prepared_transaction(upstream) == adapter_request(upstream)

(***************************************************************************)
(* TonConnect connector of the user                                        *)
(***************************************************************************)
\* connected: a wallet is paired; connect_req: connect_wallet() handed out a
\* pairing url that the wallet has not answered; disconnect_req: the same for
\* disconnect_wallet(); pending: rpc request ids the wallet has not answered
InitConnector ==
    [connected |-> FALSE, connect_req |-> FALSE, disconnect_req |-> FALSE, pending |-> {}]

\* connector.is_transaction_pending(rpc_request_id); None is never pending
is_transaction_pending(conn, rid) == rid \in conn.pending

\* connector.cancel_pending_transaction(rpc_request_id)
cancel_pending_transaction(conn, rid) == [conn EXCEPT !.pending = @ \ {rid}]

\* request ids neither pending nor stored in the session
FreeReqIds(d, conn) ==
    {r \in 1..MaxReqId : r \notin conn.pending /\ r # Get(d, "rpc_request_id", NoId)}

(***************************************************************************)
(* Handler context: the session as a handler threads it through its        *)
(* statements.  effects lists the adapter calls and renders made so far,   *)
(* msg is the id of the message sent or received last, raised is set when  *)
(* an exception left the handler.                                          *)
(***************************************************************************)
Ctx ==
    [fsm |-> fsm_state, data |-> data, chat |-> chat, window |-> window,
     conn |-> connector, effects |-> <<>>, msg |-> NoId, raised |-> FALSE]

\* ids some entry of the data dict or some running task still refers to
Referenced(d) ==
    {Get(d, "last_message_id", NoId), Get(d, "prompt_message_id", NoId)}
        \cup {tasks[t].msg : t \in DOMAIN tasks}
        \cup {tasks[t].last : t \in DOMAIN tasks}

FreeIds(d, c) == {i \in 1..MaxMsgId : i \notin c /\ i \notin Referenced(d)}

Min(S) == CHOOSE x \in S : \A y \in S : x <= y

\* the chat has room for n more messages (bound on the chat)
CanSend(x, n) == Cardinality(FreeIds(x.data, x.chat)) >= n

Raise(x) == [x EXCEPT !.raised = TRUE]

Effect(x, what) == [x EXCEPT !.effects = Append(@, what)]

\* bot.send_message / message.answer: a new message of the given kind
send_message(x, kind) ==
    LET id == Min(FreeIds(x.data, x.chat))
    IN  [x EXCEPT !.chat = @ \cup {id}, !.window = kind, !.msg = id,
                  !.effects = Append(@, <<"render", kind>>)]

\* an incoming text message of the user: it is a message of the chat too
user_message(x) ==
    LET id == Min(FreeIds(x.data, x.chat))
    IN  [x EXCEPT !.chat = @ \cup {id}, !.msg = id]

\* bot.delete_message under suppress(Exception)
delete_message(x, id) == [x EXCEPT !.chat = @ \ {id}]

SetData(x, upd) == [x EXCEPT !.data = update_data(@, upd)]

set_state(x, st) == [x EXCEPT !.fsm = st]

delete_last_message(x, message_id) ==
    LET last == Get(x.data, "last_message_id", NoId)
        y    == IF last # NoId THEN delete_message(x, last) ELSE x
    IN  SetData(y, [last_message_id |-> message_id])

(***************************************************************************)
(* Numbers read from text                                                  *)
(***************************************************************************)
\* a Python float: its class and, when finite, its value in hundredths
Finite(h) == [cls |-> "finite", value |-> h]

NaN == [cls |-> "nan", value |-> 0]

PosInf == [cls |-> "inf", value |-> 0]

\* f < n, f <= n and f > n for a float f and a number of h hundredths; every
\* comparison with nan is False
FloatLess(f, h) == f.cls = "finite" /\ f.value < h

FloatLessEq(f, h) == f.cls = "finite" /\ f.value <= h

FloatGreater(f, h) == f.cls = "inf" \/ (f.cls = "finite" /\ f.value > h)

\* float(text.strip()): ok is FALSE when it raises ValueError
ParseFloat(text) ==
    CASE text \in {"10", "10.0"} -> [ok |-> TRUE, value |-> Finite(1000)]
      [] text \in {"0", "0.0"}   -> [ok |-> TRUE, value |-> Finite(0)]
      [] text \in {"-5", "-5.0"} -> [ok |-> TRUE, value |-> Finite(-500)]
      [] text \in {"1", "1.0"}   -> [ok |-> TRUE, value |-> Finite(100)]
      [] text \in {"2", "2.0"}   -> [ok |-> TRUE, value |-> Finite(200)]
      [] text = "0.05"           -> [ok |-> TRUE, value |-> Finite(5)]
      [] text = "nan"            -> [ok |-> TRUE, value |-> NaN]
      [] text = "inf"            -> [ok |-> TRUE, value |-> PosInf]
      [] OTHER                   -> [ok |-> FALSE, value |-> Finite(0)]

\* str(f) of the floats ParseFloat yields
FloatStr(f) ==
    CASE f.cls = "nan"  -> "nan"
      [] f.cls = "inf"  -> "inf"
      [] f.value = 1000 -> "10.0"
      [] f.value = 0    -> "0.0"
      [] f.value = -500 -> "-5.0"
      [] f.value = 100  -> "1.0"
      [] f.value = 200  -> "2.0"
      [] f.value = 5    -> "0.05"

\* int(text.strip()): ok is FALSE when it raises ValueError
ParseInt(text) ==
    CASE text = "5"  -> [ok |-> TRUE, value |-> 5]
      [] text = "25" -> [ok |-> TRUE, value |-> 25]
      [] text = "0"  -> [ok |-> TRUE, value |-> 0]
      [] text = "-3" -> [ok |-> TRUE, value |-> -3]
      [] text = "1"  -> [ok |-> TRUE, value |-> 1]
      [] text = "6"  -> [ok |-> TRUE, value |-> 6]
      [] text = "20" -> [ok |-> TRUE, value |-> 20]
      [] OTHER       -> [ok |-> FALSE, value |-> 0]

\* Python's 0 | v and 1 | v on two's-complement integers
BitOr0(v) == v

BitOr1(v) == IF v % 2 = 1 THEN v ELSE v + 1

(***************************************************************************)
(* Windows                                                                 *)
(***************************************************************************)
\* the buttons (callback data) each kind of message carries
Buttons(kind) ==
    CASE kind = "connect_wallet"    -> {"app_wallet"}
      [] kind = "main_menu"         -> {"swap_menu", "swap_options", "disconnect_wallet"}
      [] kind = "send_transaction"  -> {"cancel_transaction"}
      [] kind = "transaction_sent"  -> {"main_menu"}
      [] kind = "error_tx"          -> {"main_menu", "cancel"}
      [] kind = "error_connect"     -> {"connect_wallet", "cancel"}
      [] kind = "error_disconnect"  -> {"connect_wallet", "cancel"}
      [] kind = "error_not_sent"    -> {"swap_menu", "cancel"}
      [] kind = "error_exception"   -> {"swap_menu", "cancel"}
      [] kind = "swap_menu"         -> {"build_route", "edit_token1", "edit_token2",
                                        "edit_amount", "edit_direction", "swap_options",
                                        "cancel"}
      [] kind = "route_not_found"   -> {"back"}
      [] kind = "route"             -> {"confirm_transaction", "back"}
      [] kind = "swap_options"      -> {"set_slippage", "set_max_splits", "set_max_length",
                                        "back"}
      [] kind = "error_max_splits"  -> {"set_max_splits", "cancel"}
      [] kind = "error_max_length"  -> {"set_max_length", "cancel"}
      [] kind = "error_slippage"    -> {"set_slippage", "cancel"}
      [] kind = "confirm_swap"      -> {"build_route", "cancel"}
      [] OTHER                      -> {}

\* connect_wallet_window up to its send_message.  connector.connect_wallet()
\* refuses when a wallet is already paired: the window raises before it
\* sends anything.
connect_wallet_window_sent(x) ==
    IF x.conn.connected
      THEN Raise(x)
      ELSE send_message(Effect([x EXCEPT !.conn.connect_req = TRUE], <<"call", "connect">>),
                        "connect_wallet")

connect_wallet_window(x) ==
    LET y == connect_wallet_window_sent(x)
    IN  IF y.raised THEN y ELSE delete_last_message(y, y.msg)

\* wallet_connected_window up to its send_message.  connector.wallet is None
\* without a paired wallet: line 213 raises.
wallet_connected_window_sent(x) ==
    IF ~x.conn.connected
      THEN Raise(x)
      ELSE send_message(SetData(x, [back_state |-> "main_menu"]), "main_menu")

wallet_connected_window(x) ==
    LET y == wallet_connected_window_sent(x)
    IN  IF y.raised THEN y ELSE delete_last_message(y, y.msg)

send_transaction_window(x) ==
    LET y == send_message(x, "send_transaction")
    IN  delete_last_message(y, y.msg)

\* no delete_last_message: the message is not recorded as the last one
transaction_sent_window(x) == send_message(x, "transaction_sent")

\* error_window up to its send_message; kind stands for (button_text,
\* callback_data), text for message_text
error_window_sent(x, kind, text) ==
    LET id == Min(FreeIds(x.data, x.chat))
    IN  [x EXCEPT !.chat = @ \cup {id}, !.window = kind, !.msg = id,
                  !.effects = Append(@, <<"render", kind, text>>)]

error_window(x, kind, text) ==
    LET y == error_window_sent(x, kind, text)
    IN  delete_last_message(y, y.msg)

swap_menu_window(x) ==
    LET a == IF ~Has(x.data, "slippage") THEN SetData(x, [slippage |-> Finite(5)]) ELSE x
        b == SetData(a, [back_state |-> "swap_menu"])
        y == send_message(b, "swap_menu")
    IN  delete_last_message(y, y.msg)

\* a message that carries no button and whose id the bot does not keep
\* (message.answer of a notice): shown, never referred to again
notice(x, kind) == Effect([x EXCEPT !.window = kind], <<"render", kind>>)

\* the values the options window shows: the stored options, or the defaults
\* its data.get calls name
ShownOptions(d) ==
    [slippage   |-> Get(d, "slippage", Finite(5)),
     max_splits |-> Get(d, "max_splits", 1),
     max_length |-> Get(d, "max_length", 2)]

swap_options_window(x) ==
    LET id == Min(FreeIds(x.data, x.chat))
        y  == [x EXCEPT !.chat = @ \cup {id}, !.window = "swap_options", !.msg = id,
                        !.effects = Append(@, <<"render", "swap_options",
                                                ShownOptions(x.data)>>)]
    IN  delete_last_message(y, y.msg)

(***************************************************************************)
(* Initial state: main() has run _load_tokens(); nothing is stored yet     *)
(***************************************************************************)
IdleTask == [pc |-> "idle", kind |-> None, msg |-> NoId, last |-> NoId]

\* the users of the bot that SpecUsers follows
Users == {"A", "B"}

\* what the stores hold under the id of a user nothing was stored for
NewSession ==
    [fsm |-> None, data |-> EmptyData, conn |-> InitConnector, chat |-> {}, window |-> None]

Init ==
    /\ fsm_state = None
    /\ data = EmptyData
    /\ connector = InitConnector
    /\ chat = {}
    /\ window = None
    /\ TOKENS \in {_load_tokens(TRUE), _load_tokens(FALSE)}
    /\ tasks = [t \in 1..MaxTasks |-> IdleTask]
    /\ sessions = [u \in Users |-> NewSession]

\* a handler ends (returns or raises) having brought the session to x
Done(x) ==
    /\ fsm_state' = x.fsm
    /\ data' = x.data
    /\ chat' = x.chat
    /\ window' = x.window
    /\ connector' = x.conn
    /\ UNCHANGED <<TOKENS, tasks, sessions>>

(***************************************************************************)
(* TonConnect event handlers.  The wallet answers a request the connector  *)
(* holds: the answered request leaves the connector, then the handler runs *)
(***************************************************************************)
ErrorKinds == {"UserRejectsError", "RequestTimeoutError", "TonConnectError"}

\* Event.CONNECT: the wallet accepted the pairing
connect_event(x) ==
    wallet_connected_window([x EXCEPT !.conn.connected = TRUE, !.conn.connect_req = FALSE])

\* EventError.CONNECT
connect_error_event(x, error) ==
    error_window([x EXCEPT !.conn.connect_req = FALSE], "error_connect", error)

\* Event.DISCONNECT: asked for through disconnect_wallet() or done in the wallet
disconnect_event(x) ==
    connect_wallet_window([x EXCEPT !.conn.connected = FALSE, !.conn.disconnect_req = FALSE])

\* EventError.DISCONNECT
disconnect_error_event(x, error) ==
    error_window([x EXCEPT !.conn.disconnect_req = FALSE], "error_disconnect", error)

\* Event.TRANSACTION: the wallet signed and sent request rid
transaction_event(x, rid) ==
    transaction_sent_window([x EXCEPT !.conn.pending = @ \ {rid}])

\* EventError.TRANSACTION: request rid was rejected, timed out or failed
transaction_error_event(x, rid, error) ==
    error_window([x EXCEPT !.conn.pending = @ \ {rid}], "error_tx", error)

ConnectEvent ==
    /\ connector.connect_req
    /\ CanSend(Ctx, 1)
    /\ Done(connect_event(Ctx))

ConnectErrorEvent ==
    /\ connector.connect_req
    /\ CanSend(Ctx, 1)
    /\ \E error \in ErrorKinds : Done(connect_error_event(Ctx, error))

DisconnectEvent ==
    /\ connector.connected
    /\ CanSend(Ctx, 1)
    /\ Done(disconnect_event(Ctx))

DisconnectErrorEvent ==
    /\ connector.disconnect_req
    /\ CanSend(Ctx, 1)
    /\ \E error \in ErrorKinds : Done(disconnect_error_event(Ctx, error))

TransactionEvent ==
    /\ CanSend(Ctx, 1)
    /\ \E rid \in connector.pending : Done(transaction_event(Ctx, rid))

TransactionErrorEvent ==
    /\ CanSend(Ctx, 1)
    /\ \E rid \in connector.pending, error \in ErrorKinds :
         Done(transaction_error_event(Ctx, rid, error))

(***************************************************************************)
(* Commands                                                                *)
(***************************************************************************)
start_command(x) ==
    LET rpc_request_id == Get(x.data, "rpc_request_id", NoId)
        u == user_message(x)
        a == IF is_transaction_pending(u.conn, rpc_request_id)
               THEN Effect([u EXCEPT !.conn = cancel_pending_transaction(@, rpc_request_id)],
                           <<"call", "cancelPending">>)
               ELSE u
    IN  IF ~a.conn.connected THEN connect_wallet_window(a)
                             ELSE wallet_connected_window(a)

\* the text "/start"; the state-filtered message handlers registered before
\* start_command (token1, token2, amount) take it when their state is set
StartCommand ==
    /\ fsm_state \notin {"token1", "token2", "amount"}
    /\ CanSend(Ctx, 2)
    /\ Done(start_command(Ctx))

(***************************************************************************)
(* Guided draft editing                                                    *)
(***************************************************************************)
\* texts the user types where a token symbol is asked for
TokenTexts == {"ton", "USDT", " usdt ", "FAKE"}

\* text.upper()
Upper(text) ==
    CASE text = "ton"    -> "TON"
      [] text = " usdt " -> " USDT "
      [] text = "usdt"   -> "USDT"
      [] OTHER           -> text

\* text.strip()
Strip(text) ==
    CASE text = " usdt " -> "usdt"
      [] text = " USDT " -> "USDT"
      [] OTHER           -> text

\* message.text.strip().upper()
StripUpper(text) == Upper(Strip(text))

\* texts the user types where an amount is asked for
AmountTexts == {"10", "0", "abc"}

\* edit_token1_handler / edit_token2_handler / edit_amount_handler: prompt
\* for the field, then wait for the text in the state of that field
edit_handler(x, field) ==
    LET y == send_message(x, field)
    IN  set_state(delete_last_message(y, y.msg), field)

edit_token1_handler(x) == edit_handler(x, "token1")

edit_token2_handler(x) == edit_handler(x, "token2")

edit_amount_handler(x) == edit_handler(x, "amount")

\* the token handler without the upper() of the text
token_input_handler_NoUpper(x, tokens, field, text) ==
    LET u     == user_message(x)
        a     == delete_last_message(u, u.msg)
        token == Strip(text)
    IN  IF ~_is_valid_token(tokens, token)
          THEN LET y == send_message(a, "invalid_token")
               IN  delete_last_message(y, y.msg)
          ELSE set_state(swap_menu_window(SetData(a, [k \in {field} |-> token])), None)

\* token1_input_handler / token2_input_handler
token_input_handler(x, tokens, field, text) ==
    LET u     == user_message(x)
        a     == delete_last_message(u, u.msg)
        token == StripUpper(text)
    IN  IF ~_is_valid_token(tokens, token)
          THEN LET y == send_message(a, "invalid_token")
               IN  delete_last_message(y, y.msg)
          ELSE set_state(swap_menu_window(SetData(a, [k \in {field} |-> token])), None)

token1_input_handler(x, tokens, text) == token_input_handler(x, tokens, "token1", text)

token2_input_handler(x, tokens, text) == token_input_handler(x, tokens, "token2", text)

amount_input_handler(x, text) ==
    LET u      == user_message(x)
        a      == delete_last_message(u, u.msg)
        amount == ParseFloat(text)
    IN  IF ~amount.ok \/ FloatLessEq(amount.value, 0)
          THEN LET y == send_message(a, "invalid_amount")
               IN  delete_last_message(y, y.msg)
          ELSE set_state(swap_menu_window(SetData(a, [amount |-> FloatStr(amount.value)])),
                         None)

edit_direction_handler(x) ==
    LET current       == Get(x.data, "direction", "input")
        new_direction == IF current = "input" THEN "output" ELSE "input"
    IN  swap_menu_window(SetData(x, [direction |-> new_direction]))

EditToken1 == CanSend(Ctx, 1) /\ Done(edit_token1_handler(Ctx))

EditToken2 == CanSend(Ctx, 1) /\ Done(edit_token2_handler(Ctx))

EditAmount == CanSend(Ctx, 1) /\ Done(edit_amount_handler(Ctx))

Token1Input ==
    /\ fsm_state = "token1"
    /\ CanSend(Ctx, 2)
    /\ \E text \in TokenTexts : Done(token1_input_handler(Ctx, TOKENS, text))

Token2Input ==
    /\ fsm_state = "token2"
    /\ CanSend(Ctx, 2)
    /\ \E text \in TokenTexts : Done(token2_input_handler(Ctx, TOKENS, text))

AmountInput ==
    /\ fsm_state = "amount"
    /\ CanSend(Ctx, 2)
    /\ \E text \in AmountTexts : Done(amount_input_handler(Ctx, text))

EditDirection == CanSend(Ctx, 1) /\ Done(edit_direction_handler(Ctx))

(***************************************************************************)
(* Route and transaction                                                   *)
(***************************************************************************)
\* what the aggregator answers to a quote: a route with legs, a route with no
\* paths, or an HTTP error (raised as SwapCoffeeException).  It has no route
\* for a token address that is None.
QuoteOutcomes(input_token, output_token) ==
    IF input_token = None \/ output_token = None
      THEN {"error"}
      ELSE {"route", "empty", "error"}

\* data.get("route") when no route is stored: None, which has no ["paths"]
NoRoute == [paths |-> None]

\* the body with the amount always under input_amount, whatever is_input
get_swap_route_payload_InputOnly(input_address, output_address, amount, is_input) ==
    [input_token  |-> [blockchain |-> "ton", address |-> input_address],
     output_token |-> [blockchain |-> "ton", address |-> output_address],
     input_amount |-> amount]

\* the JSON body get_swap_route posts to /v1/route: the two token addresses
\* and the amount under the key of its direction
get_swap_route_payload(input_address, output_address, amount, is_input) ==
    IF is_input
      THEN [input_token  |-> [blockchain |-> "ton", address |-> input_address],
            output_token |-> [blockchain |-> "ton", address |-> output_address],
            input_amount |-> amount]
      ELSE [input_token  |-> [blockchain |-> "ton", address |-> input_address],
            output_token |-> [blockchain |-> "ton", address |-> output_address],
            output_amount |-> amount]

\* the response of get_swap_route as far as the bot reads it
get_swap_route(input_token, output_token, amount, max_splits, max_length, is_input, outcome) ==
    [input_token |-> input_token, output_token |-> output_token,
     paths |-> IF outcome = "route" THEN "legs" ELSE "empty"]

\* build_route_handler with update_data(route=route) placed before the look
\* at route["paths"]: an empty answer would replace the stored route
build_route_handler_StoresFirst(x, tokens, outcome) ==
    LET input_token  == TokenAddress(tokens, Get(x.data, "token1", None))
        output_token == TokenAddress(tokens, Get(x.data, "token2", None))
        is_input     == (Get(x.data, "direction", "input") = "input")
    IN  IF ~Has(x.data, "amount") \/ ~ParseFloat(Get(x.data, "amount", None)).ok
          THEN Raise(x)
          ELSE LET q     == Effect(x, <<"call", "quote">>)
                   route == get_swap_route(input_token, output_token, x.data.amount,
                                           Opt(x.data, "max_splits"),
                                           Opt(x.data, "max_length"), is_input, outcome)
                   r     == SetData(q, [route |-> route])
               IN  IF outcome = "error"
                     THEN Raise(q)
                     ELSE IF route.paths = "empty"
                       THEN LET a == delete_last_message(
                                         r, Get(r.data, "last_message_id", NoId))
                                y == send_message(a, "route_not_found")
                            IN  delete_last_message(y, y.msg)
                       ELSE send_message(r, "route")

build_route_handler(x, tokens, outcome) ==
    LET input_token  == TokenAddress(tokens, Get(x.data, "token1", None))
        output_token == TokenAddress(tokens, Get(x.data, "token2", None))
        direction    == Get(x.data, "direction", "input")
        max_splits   == Opt(x.data, "max_splits")
        max_length   == Opt(x.data, "max_length")
        is_input     == (direction = "input")
    IN  IF ~Has(x.data, "amount") \/ ~ParseFloat(Get(x.data, "amount", None)).ok
          \* float(None) raises TypeError, float of a text that is no number
          \* ValueError
          THEN Raise(x)
          ELSE LET c     == Effect(Effect(x, <<"call", "quote">>),
                                   <<"args", "quote",
                                     [max_splits |-> max_splits, max_length |-> max_length]>>)
                   q     == Effect(c, <<"args", "quote_tokens",
                                        [input_token |-> input_token,
                                         output_token |-> output_token,
                                         amount |-> x.data.amount,
                                         is_input |-> is_input]>>)
                   route == get_swap_route(input_token, output_token, x.data.amount,
                                           max_splits, max_length, is_input, outcome)
               IN  IF outcome = "error"
                     \* SwapCoffeeException leaves the handler
                     THEN Raise(q)
                     ELSE IF route.paths = "empty"
                       THEN LET a == delete_last_message(
                                         q, Get(q.data, "last_message_id", NoId))
                                y == send_message(a, "route_not_found")
                            IN  delete_last_message(y, y.msg)
                       ELSE send_message(SetData(q, [route |-> route]), "route")

BuildRoute ==
    /\ CanSend(Ctx, 1)
    /\ \E outcome \in QuoteOutcomes(TokenAddress(TOKENS, Get(data, "token1", None)),
                                    TokenAddress(TOKENS, Get(data, "token2", None))) :
         Done(build_route_handler(Ctx, TOKENS, outcome))

\* every way the adapter call can end returns the decoded response
Returns(ends) == \A end \in ends : end.raised = None

\* initiate_swap_transaction with no try around its steps: the exception of
\* a failed step leaves the function
initiate_swap_transaction_NoTry(x, quote, prepare, has_tx, send_ok) ==
    LET q == Effect(x, <<"call", "quote">>)
        p == Effect(q, <<"call", "prepare">>)
        s == Effect(p, <<"call", "sendTransaction">>)
    IN  IF ~Returns(get_swap_route_request(quote))
          THEN [x |-> Raise(q), result |-> NoId]
          ELSE IF ~Returns(get_prepared_transaction(prepare)) \/ ~has_tx
            THEN [x |-> Raise(p), result |-> NoId]
            ELSE IF ~send_ok
              THEN [x |-> Raise(s), result |-> NoId]
              ELSE LET rpc_request_id == Min(FreeReqIds(s.data, s.conn))
                   IN  [x      |-> [s EXCEPT !.conn.pending = @ \cup {rpc_request_id}],
                        result |-> rpc_request_id]

\* initiate_swap_transaction: get_swap_route, get_prepared_transaction, then
\* connector.send_transaction, all inside one try whose except returns None.
\* quote and prepare are what the upstream does with the two requests,
\* has_tx whether the prepared answer holds a first transaction, send_ok
\* whether the connector takes the request.  Yields the context and the
\* returned value (request id, NoId for None).
initiate_swap_transaction(x, quote, prepare, has_tx, send_ok) ==
    LET q == Effect(x, <<"call", "quote">>)
        p == Effect(q, <<"call", "prepare">>)
        s == Effect(p, <<"call", "sendTransaction">>)
    IN  IF ~Returns(get_swap_route_request(quote))
          THEN [x |-> q, result |-> NoId]
          ELSE IF ~Returns(get_prepared_transaction(prepare)) \/ ~has_tx
            THEN [x |-> p, result |-> NoId]
            ELSE IF ~send_ok
              THEN [x |-> s, result |-> NoId]
              ELSE LET rpc_request_id == Min(FreeReqIds(s.data, s.conn))
                   IN  [x      |-> [s EXCEPT !.conn.pending = @ \cup {rpc_request_id}],
                        result |-> rpc_request_id]

\* test_initiate_swap: initiate_swap_transaction on fixed test data; its
\* result is handed on
test_initiate_swap(x, quote, prepare, has_tx, send_ok) ==
    initiate_swap_transaction(x, quote, prepare, has_tx, send_ok)

\* test_command: the text "/test"
test_command(x, quote, prepare, has_tx, send_ok) ==
    IF ~x.conn.connected
      THEN notice(x, "connect_first")
      ELSE notice(test_initiate_swap(x, quote, prepare, has_tx, send_ok).x, "test_result")

\* the state-filtered message handlers registered before test_command take
\* the text when their state is set
TestCommand ==
    /\ fsm_state \notin {"token1", "token2", "amount"}
    /\ \E quote \in Upstream, prepare \in Upstream, has_tx \in BOOLEAN, send_ok \in BOOLEAN :
         /\ send_ok => FreeReqIds(data, connector) # {}
         /\ Done(test_command(Ctx, quote, prepare, has_tx, send_ok))

\* the prepare and send steps of initiate_swap_transaction, which is what the
\* handler's create_swap_transaction(connector, sender_address, route, slippage)
\* runs on the stored route: any exception is caught and None returned.
\* Yields the context and the returned value (request id, NoId for None).
create_swap_transaction(x, route, slippage, prep_ok, send_ok) ==
    LET p == Effect(Effect(x, <<"call", "prepare">>),
                    <<"args", "prepare", [slippage |-> slippage]>>)
    IN  IF route.paths = None
          \* route["paths"] of None raises before anything is called
          THEN [x |-> x, result |-> NoId]
          ELSE IF ~prep_ok
          THEN [x |-> p, result |-> NoId]
          ELSE LET s   == Effect(p, <<"call", "sendTransaction">>)
                   rid == Min(FreeReqIds(s.data, s.conn))
               IN  IF ~send_ok
                     THEN [x |-> s, result |-> NoId]
                     ELSE [x |-> [s EXCEPT !.conn.pending = @ \cup {rid}], result |-> rid]

confirm_transaction_handler(x, prep_ok, send_ok) ==
    IF ~x.conn.connected
      \* connector.wallet is None: caught by the handler's except
      THEN error_window(x, "error_exception", "Error")
      ELSE LET t == create_swap_transaction(x, Get(x.data, "route", NoRoute),
                                            Opt(x.data, "slippage"),
                                            prep_ok, send_ok)
           IN  IF t.result # NoId
                 THEN send_transaction_window(t.x)
                 ELSE error_window(t.x, "error_not_sent", "Transaction was not sent.")

\* room for one more request id (bound on the connector's pending requests)
CanRequest(x) == FreeReqIds(x.data, x.conn) # {}

ConfirmTransaction ==
    /\ CanSend(Ctx, 1)
    /\ \E prep_ok \in BOOLEAN, send_ok \in BOOLEAN :
         /\ send_ok => CanRequest(Ctx)
         /\ Done(confirm_transaction_handler(Ctx, prep_ok, send_ok))

(***************************************************************************)
(* callback_query_handler: the catch-all callback handler.  Telegram       *)
(* delivers a press of any button of any message still in the chat; the    *)
(* handler looks at the callback data only, not at the screen shown.       *)
(***************************************************************************)
Wallets == {"tonkeeper"}

\* data.startswith("app_wallet:")
cq_app_wallet(x, wallet) ==
    connect_wallet_window(SetData(x, [selected_wallet |-> wallet]))

cq_main_menu(x) == wallet_connected_window(x)

cq_connect_wallet(x) == connect_wallet_window(x)

\* connector.disconnect_wallet() raises without a paired wallet; its outcome
\* arrives as disconnect_event or disconnect_error_event
cq_disconnect_wallet(x) ==
    IF ~x.conn.connected
      THEN Raise(x)
      ELSE Effect([x EXCEPT !.conn.disconnect_req = TRUE], <<"call", "disconnect">>)

\* cancel_ok is whether connector.cancel_pending_transaction returns; the
\* branch does not catch what it raises
cq_cancel_transaction(x, cancel_ok) ==
    LET rpc_request_id == Get(x.data, "rpc_request_id", NoId)
    IN  IF is_transaction_pending(x.conn, rpc_request_id)
          THEN LET a == Effect(x, <<"call", "cancelPending">>)
               IN  IF ~cancel_ok
                     THEN Raise(a)
                     ELSE wallet_connected_window(
                              [a EXCEPT !.conn = cancel_pending_transaction(@, rpc_request_id)])
          ELSE wallet_connected_window(x)

\* data == "send_transaction" (send_transfer) and "send_batch_transaction"
\* (send_batch_transfer): the same statements around the connector call
cq_send_transaction(x, send_ok) ==
    IF ~x.conn.connected
      \* connector.account is None
      THEN Raise(x)
      ELSE LET a == Effect(x, <<"call", "sendTransaction">>)
               rpc_request_id == Min(FreeReqIds(a.data, a.conn))
           IN  IF ~send_ok
                 THEN Raise(a)
                 ELSE SetData(send_transaction_window(
                                  [a EXCEPT !.conn.pending = @ \cup {rpc_request_id}]),
                              [rpc_request_id |-> rpc_request_id])

cq_swap_menu(x) == swap_menu_window(x)

\* m is callback_query.message.message_id, the message whose button was pressed
cq_cancel(x, m) == wallet_connected_window(delete_message(x, m))

cq_back(x) ==
    LET current_state  == x.fsm
        previous_state == Get(x.data, "previous_state", None)
    IN  IF current_state \in {"setting_max_splits", "setting_max_length"}
          THEN LET y == wallet_connected_window(x)
               IN  IF y.raised THEN y ELSE set_state(y, "waiting_for_swap_text")
          ELSE IF previous_state = "waiting_for_swap_text"
            THEN LET y == wallet_connected_window(x)
                 IN  IF y.raised THEN y ELSE set_state(y, "waiting_for_swap_text")
            ELSE IF Get(x.data, "back_state", None) = "swap_menu"
              THEN swap_menu_window(x)
              ELSE wallet_connected_window(x)

\* the messages that carry a Cancel button are error windows and the swap
\* menu, each recorded as the last message when it is sent
PressedMessages(x) == {Get(x.data, "last_message_id", NoId)}

CqAppWallet ==
    /\ CanSend(Ctx, 1)
    /\ \E wallet \in Wallets : Done(cq_app_wallet(Ctx, wallet))

CqMainMenu == CanSend(Ctx, 1) /\ Done(cq_main_menu(Ctx))

CqConnectWallet == CanSend(Ctx, 1) /\ Done(cq_connect_wallet(Ctx))

CqDisconnectWallet == Done(cq_disconnect_wallet(Ctx))

CqCancelTransaction ==
    /\ CanSend(Ctx, 1)
    /\ \E cancel_ok \in BOOLEAN : Done(cq_cancel_transaction(Ctx, cancel_ok))

CqSendTransaction ==
    /\ CanSend(Ctx, 1)
    /\ \E send_ok \in BOOLEAN :
         /\ CanRequest(Ctx)
         /\ Done(cq_send_transaction(Ctx, send_ok))

CqSwapMenu == CanSend(Ctx, 1) /\ Done(cq_swap_menu(Ctx))

CqCancel ==
    /\ CanSend(Ctx, 1)
    /\ \E m \in PressedMessages(Ctx) : Done(cq_cancel(Ctx, m))

CqBack == CanSend(Ctx, 1) /\ Done(cq_back(Ctx))

(***************************************************************************)
(* Swap options: the options window, the prompts of the catch-all callback *)
(* handler and the text handlers of the three setting_* states             *)
(***************************************************************************)
\* data == "swap_options"; current_state is the FSM state the handler read
cq_swap_options(x) == swap_options_window(SetData(x, [previous_state |-> x.fsm]))

\* data == "set_max_splits" / "set_max_length" / "set_slippage": enter the
\* state, prompt, remember the prompt
cq_set_option(x, st, prompt) ==
    LET y == send_message(set_state(x, st), prompt)
    IN  SetData(y, [prompt_message_id |-> y.msg])

cq_set_max_splits(x) == cq_set_option(x, "setting_max_splits", "prompt_max_splits")

cq_set_max_length(x) == cq_set_option(x, "setting_max_length", "prompt_max_length")

cq_set_slippage(x) == cq_set_option(x, "setting_slippage", "prompt_slippage")

\* the head of the three text handlers: delete the prompt when one is stored
delete_prompt(x) ==
    LET prompt_id == Get(x.data, "prompt_message_id", NoId)
    IN  IF prompt_id # NoId THEN delete_message(x, prompt_id) ELSE x

\* `value <= 0 | value > 20`: | binds tighter than the comparisons, which
\* then chain: value <= (0 | value) and (0 | value) > 20
RejectsMaxSplits(value) == value <= BitOr0(value) /\ BitOr0(value) > 20

\* `value <= 1 | value > 5`: value <= (1 | value) and (1 | value) > 5
RejectsMaxLength(value) == value <= BitOr1(value) /\ BitOr1(value) > 5

\* `value < 0 or value > 1`
RejectsSlippage(value) == FloatLess(value, 0) \/ FloatGreater(value, 100)

set_max_splits(x, text) ==
    LET a     == delete_prompt(x)
        value == ParseInt(text)
    IN  IF ~value.ok \/ RejectsMaxSplits(value.value)
          THEN error_window(a, "error_max_splits", "Invalid value")
          ELSE swap_options_window(
                   notice(SetData(a, [max_splits |-> value.value]), "max_splits_set"))

set_max_length(x, text) ==
    LET a     == delete_prompt(x)
        value == ParseInt(text)
    IN  IF ~value.ok \/ RejectsMaxLength(value.value)
          THEN error_window(a, "error_max_length", "Invalid value")
          ELSE swap_options_window(
                   notice(SetData(a, [max_length |-> value.value]), "max_length_set"))

set_slippage(x, text) ==
    LET a     == delete_prompt(x)
        value == ParseFloat(text)
    IN  IF ~value.ok \/ RejectsSlippage(value.value)
          THEN error_window(a, "error_slippage", "Invalid value")
          ELSE swap_options_window(
                   notice(SetData(a, [slippage |-> value.value]), "slippage_set"))

\* texts the user types where an option is asked for
IntTexts == {"5", "25", "0"}

SlippageTexts == {"1", "2", "nan"}

CqSwapOptions == CanSend(Ctx, 1) /\ Done(cq_swap_options(Ctx))

CqSetMaxSplits == CanSend(Ctx, 1) /\ Done(cq_set_max_splits(Ctx))

CqSetMaxLength == CanSend(Ctx, 1) /\ Done(cq_set_max_length(Ctx))

CqSetSlippage == CanSend(Ctx, 1) /\ Done(cq_set_slippage(Ctx))

SetMaxSplits ==
    /\ fsm_state = "setting_max_splits"
    /\ CanSend(Ctx, 1)
    /\ \E text \in IntTexts : Done(set_max_splits(Ctx, text))

SetMaxLength ==
    /\ fsm_state = "setting_max_length"
    /\ CanSend(Ctx, 1)
    /\ \E text \in IntTexts : Done(set_max_length(Ctx, text))

SetSlippage ==
    /\ fsm_state = "setting_slippage"
    /\ CanSend(Ctx, 1)
    /\ \E text \in SlippageTexts : Done(set_slippage(Ctx, text))

(***************************************************************************)
(* Free-text swap request: /swap, then the text goes to the intent         *)
(* extraction call, whose answer is parsed by process_swap_text            *)
(***************************************************************************)
start_swap_command(x) == set_state(notice(x, "swap_example"), "waiting_for_swap_text")

\* what the extraction call yields: it raises (api_error), or answers with a
\* text that holds no braces (no_json), no valid JSON between them
\* (bad_json), an object that lacks a required field (missing_field), a
\* token that is no string (not_string), or the three fields; amount is
\* str(data["amount"])
FailedExtractions ==
    {[kind |-> k, input_token |-> None, output_token |-> None, amount |-> None] :
       k \in {"api_error", "no_json", "bad_json", "missing_field", "not_string"}}

Extractions ==
    FailedExtractions
      \cup [kind : {"fields"}, input_token : {"ton", "FAKE"},
            output_token : {"usdt", "FAKE"}, amount : {"10", "-5"}]

\* the except branch that takes the failure of an extraction
ExtractionError(r, tokens) ==
    CASE r.kind = "bad_json"                         -> "error_format"
      [] r.kind \in {"no_json", "missing_field"}     -> "error_value"
      [] r.kind \in {"api_error", "not_string"}      -> "error_unexpected"
      [] Upper(r.input_token) \notin DOMAIN tokens   -> "error_value"
      [] Upper(r.output_token) \notin DOMAIN tokens  -> "error_value"
      [] OTHER                                       -> None

\* the handler storing the extracted fields before it looks the tokens up
process_swap_text_StoresFirst(x, tokens, user_text, r) ==
    LET a     == SetData(x, [swap_text |-> user_text])
        b     == IF r.kind = "fields"
                   THEN SetData(a, [token1    |-> Upper(r.input_token),
                                    token2    |-> Upper(r.output_token),
                                    amount    |-> r.amount,
                                    direction |-> "input"])
                   ELSE a
        error == ExtractionError(r, tokens)
    IN  IF error # None
          THEN start_swap_command(notice(b, error))
          ELSE send_message(b, "confirm_swap")

process_swap_text(x, tokens, user_text, r) ==
    LET a     == SetData(x, [swap_text |-> user_text])
        error == ExtractionError(r, tokens)
    IN  IF error # None
          THEN start_swap_command(notice(a, error))
          ELSE send_message(SetData(a, [token1    |-> Upper(r.input_token),
                                        token2    |-> Upper(r.output_token),
                                        amount    |-> r.amount,
                                        direction |-> "input"]),
                            "confirm_swap")

\* the free text of the user, as far as the handler keeps it
SwapTexts == {"swap 10 ton to usdt"}

\* the text "/swap"; the state-filtered message handlers registered before
\* start_swap_command take it when their state is set
StartSwapCommand ==
    /\ fsm_state \notin {"token1", "token2", "amount", "setting_max_splits",
                         "setting_max_length", "setting_slippage"}
    /\ Done(start_swap_command(Ctx))

ProcessSwapText ==
    /\ fsm_state = "waiting_for_swap_text"
    /\ CanSend(Ctx, 1)
    /\ \E user_text \in SwapTexts, r \in Extractions :
         Done(process_swap_text(Ctx, TOKENS, user_text, r))

(***************************************************************************)
(* Spec: the handlers of the swap and wallet-request lifecycle, each run   *)
(* to completion                                                           *)
(***************************************************************************)
Next ==
    \/ ConnectEvent
    \/ ConnectErrorEvent
    \/ DisconnectEvent
    \/ DisconnectErrorEvent
    \/ TransactionEvent
    \/ TransactionErrorEvent
    \/ StartCommand
    \/ EditToken1
    \/ EditToken2
    \/ EditAmount
    \/ Token1Input
    \/ Token2Input
    \/ AmountInput
    \/ BuildRoute
    \/ ConfirmTransaction
    \/ CqMainMenu
    \/ CqConnectWallet
    \/ CqDisconnectWallet
    \/ CqCancelTransaction
    \/ CqSendTransaction
    \/ CqSwapMenu
    \/ CqCancel
    \/ CqBack

Spec == Init /\ [][Next]_vars

\* the user deletes a message of the private chat that the bot no longer
\* keeps track of (their own texts, old route and confirmation messages)
UserDeletesMessage ==
    /\ \E m \in chat \ {Get(data, "last_message_id", NoId)} : chat' = chat \ {m}
    /\ UNCHANGED <<fsm_state, data, connector, window, TOKENS, tasks, sessions>>

(***************************************************************************)
(* SpecSwap: the handlers that build a swap request, the guided draft and  *)
(* the free-text request, up to the quote                                  *)
(***************************************************************************)
NextSwap ==
    \/ StartCommand
    \/ ConnectEvent
    \/ CqSwapMenu
    \/ EditToken1
    \/ EditToken2
    \/ EditAmount
    \/ Token1Input
    \/ Token2Input
    \/ AmountInput
    \/ EditDirection
    \/ CqBack
    \/ CqCancel
    \/ StartSwapCommand
    \/ ProcessSwapText
    \/ BuildRoute
    \/ UserDeletesMessage

SpecSwap == Init /\ [][NextSwap]_vars

(***************************************************************************)
(* SpecOptions: the handlers of the swap options                           *)
(***************************************************************************)
NextOptions ==
    \/ StartCommand
    \/ ConnectEvent
    \/ CqSwapMenu
    \/ CqSwapOptions
    \/ CqSetMaxSplits
    \/ CqSetMaxLength
    \/ CqSetSlippage
    \/ SetMaxSplits
    \/ SetMaxLength
    \/ SetSlippage
    \/ CqBack
    \/ CqCancel
    \/ StartSwapCommand

SpecOptions == Init /\ [][NextOptions]_vars

(***************************************************************************)
(* SpecRegistry: the bot process is started again while the sessions stay  *)
(* in Redis; each run begins with _load_tokens().  The handlers are those  *)
(* that fill a draft and ask for its quote                                 *)
(***************************************************************************)
\* main(): _load_tokens(), then polling.  TOKENS is a module global of the
\* process; FSM state and data of the users are in the Redis storage
Main ==
    /\ \E upstream \in Upstream :
         \E tokens_list \in get_tokens(upstream) :
           TOKENS' = _load_tokens(tokens_list.raised = None)
    /\ UNCHANGED <<fsm_state, data, connector, chat, window, tasks, sessions>>

NextRegistry ==
    \/ Main
    \/ CqSwapMenu
    \/ EditToken1
    \/ EditToken2
    \/ EditAmount
    \/ Token1Input
    \/ Token2Input
    \/ AmountInput
    \/ EditDirection
    \/ StartSwapCommand
    \/ ProcessSwapText
    \/ BuildRoute
    \/ UserDeletesMessage

SpecRegistry == Init /\ [][NextRegistry]_vars

(***************************************************************************)
(* SpecTest: the /test command, which runs initiate_swap_transaction on    *)
(* the connector of the user, and the wallet's answers to its requests     *)
(***************************************************************************)
NextTest ==
    \/ StartCommand
    \/ ConnectEvent
    \/ ConnectErrorEvent
    \/ CqDisconnectWallet
    \/ DisconnectEvent
    \/ TestCommand
    \/ TransactionEvent
    \/ TransactionErrorEvent
    \/ UserDeletesMessage

SpecTest == Init /\ [][NextTest]_vars

(***************************************************************************)
(* SpecUsers: two users.  The FSM storage is read and written under the    *)
(* key resolve_context gives, the connector is the one init_connector      *)
(* gives, and messages go to the private chat chat_id = user_id.           *)
(***************************************************************************)
\* a storage that keeps everything under one key
resolve_context_OneKey(user_id) == "A"

\* dp.fsm.resolve_context(bot, user_id, user_id), and the state aiogram hands
\* a handler for an update of the private chat: the storage key of the user
resolve_context(user_id) == user_id

\* tc.init_connector(user_id): the connector kept for the user
init_connector(user_id) == user_id

\* the session a handler for an event of user_id works on, out of stores S
CtxOf(S, user_id) ==
    [fsm     |-> S[resolve_context(user_id)].fsm,
     data    |-> S[resolve_context(user_id)].data,
     chat    |-> S[user_id].chat,
     window  |-> S[user_id].window,
     conn    |-> S[init_connector(user_id)].conn,
     effects |-> <<>>, msg |-> NoId, raised |-> FALSE]

\* the stores after a handler for an event of user_id left the session x
Stored(S, user_id, x) ==
    [k \in Users |->
       [fsm    |-> IF k = resolve_context(user_id) THEN x.fsm ELSE S[k].fsm,
        data   |-> IF k = resolve_context(user_id) THEN x.data ELSE S[k].data,
        conn   |-> IF k = init_connector(user_id) THEN x.conn ELSE S[k].conn,
        chat   |-> IF k = user_id THEN x.chat ELSE S[k].chat,
        window |-> IF k = user_id THEN x.window ELSE S[k].window]]

\* the events of SpecUsers: a command, button presses, wallet events, and
\* the texts a user types where the first token is asked for
UserEvents ==
    [kind : {"start", "connect_event", "disconnect_event", "swap_menu", "edit_token1"},
     arg  : {None}]
      \cup [kind : {"text"}, arg : {"ton", "FAKE"}]

\* the registration the dispatcher and the connector pick for an event, by
\* its filters, and what the event needs to occur
Accepts(x, event) ==
    CASE event.kind = "start" ->
           x.fsm \notin {"token1", "token2", "amount"} /\ CanSend(x, 2)
      [] event.kind = "connect_event" -> x.conn.connect_req /\ CanSend(x, 1)
      [] event.kind = "disconnect_event" -> x.conn.connected /\ CanSend(x, 1)
      [] event.kind = "swap_menu" -> CanSend(x, 1)
      [] event.kind = "edit_token1" -> CanSend(x, 1)
      [] event.kind = "text" -> x.fsm = "token1" /\ CanSend(x, 2)

\* the handler run for the event
dispatch(x, event) ==
    CASE event.kind = "start" -> start_command(x)
      [] event.kind = "connect_event" -> connect_event(x)
      [] event.kind = "disconnect_event" -> disconnect_event(x)
      [] event.kind = "swap_menu" -> cq_swap_menu(x)
      [] event.kind = "edit_token1" -> edit_token1_handler(x)
      [] event.kind = "text" -> token1_input_handler(x, TOKENS, event.arg)

\* the stores S after the event of user_id was handled
Handled(S, user_id, event) ==
    Stored(S, user_id, dispatch(CtxOf(S, user_id), event))

\* the event of user_id is handled to its end
Deliver(user_id, event) ==
    /\ sessions' = Handled(sessions, user_id, event)
    /\ UNCHANGED <<fsm_state, data, connector, chat, window, TOKENS, tasks>>

UserStartCommand ==
    \E user_id \in Users :
      LET event == [kind |-> "start", arg |-> None]
      IN  Accepts(CtxOf(sessions, user_id), event) /\ Deliver(user_id, event)

UserConnectEvent ==
    \E user_id \in Users :
      LET event == [kind |-> "connect_event", arg |-> None]
      IN  Accepts(CtxOf(sessions, user_id), event) /\ Deliver(user_id, event)

UserDisconnectEvent ==
    \E user_id \in Users :
      LET event == [kind |-> "disconnect_event", arg |-> None]
      IN  Accepts(CtxOf(sessions, user_id), event) /\ Deliver(user_id, event)

UserCqSwapMenu ==
    \E user_id \in Users :
      LET event == [kind |-> "swap_menu", arg |-> None]
      IN  Accepts(CtxOf(sessions, user_id), event) /\ Deliver(user_id, event)

UserEditToken1 ==
    \E user_id \in Users :
      LET event == [kind |-> "edit_token1", arg |-> None]
      IN  Accepts(CtxOf(sessions, user_id), event) /\ Deliver(user_id, event)

UserToken1Input ==
    \E user_id \in Users, text \in {"ton", "FAKE"} :
      LET event == [kind |-> "text", arg |-> text]
      IN  Accepts(CtxOf(sessions, user_id), event) /\ Deliver(user_id, event)

NextUsers ==
    \/ UserStartCommand
    \/ UserConnectEvent
    \/ UserDisconnectEvent
    \/ UserCqSwapMenu
    \/ UserEditToken1
    \/ UserToken1Input

SpecUsers == Init /\ [][NextUsers]_vars

(***************************************************************************)
(* SpecQuote: a free-text draft, the two routing options and the quote     *)
(***************************************************************************)
NextQuote ==
    \/ StartSwapCommand
    \/ ProcessSwapText
    \/ EditDirection
    \/ CqSetMaxSplits
    \/ CqSetMaxLength
    \/ SetMaxSplits
    \/ SetMaxLength
    \/ BuildRoute
    \/ UserDeletesMessage

SpecQuote == Init /\ [][NextQuote]_vars

(***************************************************************************)
(* SpecConc: handlers as asyncio tasks of one user.  A handler runs up to  *)
(* the send_message of its window in one step; delete_last_message then    *)
(* takes three steps, one per await: the get_data that reads               *)
(* last_message_id, the delete_message, the update_data that writes it.    *)
(* Task 1 is the handler of the aiogram update being processed; the other  *)
(* tasks are TonConnect event handlers, which the connector starts on its  *)
(* own whenever the wallet answers.  Nothing in the code keeps the tasks   *)
(* of one user apart.                                                      *)
(***************************************************************************)
UpdateTask == 1

EventTasks == (1..MaxTasks) \ {UpdateTask}

\* the handler of task t has sent its window (session y) and enters
\* delete_last_message(user_id, message.message_id)
Sent(t, kind, y) ==
    /\ ~y.raised
    /\ data' = y.data
    /\ chat' = y.chat
    /\ window' = y.window
    /\ connector' = y.conn
    /\ tasks' = [tasks EXCEPT ![t] = [pc |-> "read", kind |-> kind, msg |-> y.msg,
                                      last |-> NoId]]
    /\ UNCHANGED <<fsm_state, TOKENS, sessions>>

TaskConnectWallet ==
    /\ tasks[UpdateTask].pc = "idle"
    /\ CanSend(Ctx, 1)
    /\ Sent(UpdateTask, "connect_wallet", connect_wallet_window_sent(Ctx))

TaskMainMenu ==
    /\ tasks[UpdateTask].pc = "idle"
    /\ CanSend(Ctx, 1)
    /\ Sent(UpdateTask, "main_menu", wallet_connected_window_sent(Ctx))

TaskConnectEvent ==
    \E t \in EventTasks :
      /\ tasks[t].pc = "idle"
      /\ connector.connect_req
      /\ CanSend(Ctx, 1)
      /\ Sent(t, "connect_event",
              wallet_connected_window_sent(
                  [Ctx EXCEPT !.conn.connected = TRUE, !.conn.connect_req = FALSE]))

TaskConnectErrorEvent ==
    \E t \in EventTasks, error \in ErrorKinds :
      /\ tasks[t].pc = "idle"
      /\ connector.connect_req
      /\ CanSend(Ctx, 1)
      /\ Sent(t, "connect_error_event",
              error_window_sent([Ctx EXCEPT !.conn.connect_req = FALSE],
                                "error_connect", error))

TaskDisconnectEvent ==
    \E t \in EventTasks :
      /\ tasks[t].pc = "idle"
      /\ connector.connected
      /\ CanSend(Ctx, 1)
      /\ Sent(t, "disconnect_event",
              connect_wallet_window_sent(
                  [Ctx EXCEPT !.conn.connected = FALSE, !.conn.disconnect_req = FALSE]))

\* last_message_id = (await state.get_data()).get("last_message_id")
DlmRead ==
    \E t \in DOMAIN tasks :
      /\ tasks[t].pc = "read"
      /\ tasks' = [tasks EXCEPT ![t].pc = "delete",
                                ![t].last = Get(data, "last_message_id", NoId)]
      /\ UNCHANGED <<fsm_state, data, connector, chat, window, TOKENS, sessions>>

\* if last_message_id is not None: await bot.delete_message(...)
DlmDelete ==
    \E t \in DOMAIN tasks :
      /\ tasks[t].pc = "delete"
      /\ chat' = IF tasks[t].last # NoId THEN chat \ {tasks[t].last} ELSE chat
      /\ tasks' = [tasks EXCEPT ![t].pc = "update"]
      /\ UNCHANGED <<fsm_state, data, connector, window, TOKENS, sessions>>

\* await state.update_data(last_message_id=message_id); the handler returns
DlmUpdate ==
    \E t \in DOMAIN tasks :
      /\ tasks[t].pc = "update"
      /\ data' = update_data(data, [last_message_id |-> tasks[t].msg])
      /\ tasks' = [tasks EXCEPT ![t] = IdleTask]
      /\ UNCHANGED <<fsm_state, connector, chat, window, TOKENS, sessions>>

NextConc ==
    \/ TaskConnectWallet
    \/ TaskMainMenu
    \/ TaskConnectEvent
    \/ TaskConnectErrorEvent
    \/ TaskDisconnectEvent
    \/ DlmRead
    \/ DlmDelete
    \/ DlmUpdate

SpecConc == Init /\ [][NextConc]_vars

(***************************************************************************)
(* Vocabulary of the claims                                                *)
(***************************************************************************)
\* the session as the next handler finds it after a handler left it as x
Rearm(x) == [x EXCEPT !.effects = <<>>, !.msg = NoId, !.raised = FALSE]

\* how many times the adapter operation op was called
Calls(eff, op) == Cardinality({i \in DOMAIN eff : eff[i] = <<"call", op>>})

\* positions of the renders in a handler's effects
Renders(eff) == {i \in DOMAIN eff : eff[i][1] = "render"}

Rendered(eff, kind) == \E i \in Renders(eff) : eff[i][2] = kind

\* pendingRequestId of the session: the stored rpc_request_id
PendingRequestId(d) == Get(d, "rpc_request_id", NoId)

\* the screens of the session, read off the window shown
AwaitingRouteConfirmation(w) == w = "route"

AwaitingWalletConfirmation(w) == w = "send_transaction"

MainMenu(w) == w = "main_menu"

Disconnected(w) == w = "connect_wallet"

ErrorScreens == {"error_tx", "error_connect", "error_disconnect", "error_not_sent",
                 "error_exception"}

\* every field of the session is as the handler found it
SessionUnchanged(x) ==
    /\ x.fsm = fsm_state
    /\ x.data = data
    /\ x.window = window
    /\ x.chat = chat

(***************************************************************************)
(* Claims about the wallet-request lifecycle, stated over the handlers     *)
(* applied to every reachable session                                      *)
(***************************************************************************)
\* C1: on the route-confirmation screen, two Confirm presses delivered
\* back-to-back make exactly one sendTransaction call: once the first press
\* has submitted a request, the second press calls sendTransaction no more.
C1_DoubleConfirmSendsOnce ==
    (/\ AwaitingRouteConfirmation(window)
     /\ connector.connected
     /\ CanSend(Ctx, 1)
     /\ CanRequest(Ctx))
    => LET first == confirm_transaction_handler(Ctx, TRUE, TRUE)
       IN  \A prep_ok \in BOOLEAN, send_ok \in BOOLEAN :
             (CanSend(first, 1) /\ (send_ok => CanRequest(first)))
             => LET second == confirm_transaction_handler(Rearm(first), prep_ok, send_ok)
                IN  Calls(first.effects, "sendTransaction")
                      + Calls(second.effects, "sendTransaction") = 1

\* C2: rpc_request_id is stored (non-null) only while the screen is
\* AwaitingWalletConfirmation.
C2_RequestIdOnlyWhileAwaiting ==
    PendingRequestId(data) # NoId => AwaitingWalletConfirmation(window)

\* C3: a TransactionFailed event for a request id that is not the session's
\* pendingRequestId (also when none is stored) is dropped: no session field
\* changes and nothing is rendered.
C3_StaleFailureDropped ==
    \A rid \in connector.pending, error \in ErrorKinds :
      (rid # PendingRequestId(data) /\ CanSend(Ctx, 1))
      => LET after == transaction_error_event(Ctx, rid, error)
         IN  SessionUnchanged(after) /\ Renders(after.effects) = {}

\* C4: Confirm on the route-confirmation screen: when prepare and
\* sendTransaction succeed the session stores the returned request id and
\* shows the wallet-confirmation screen; when one of them fails no request
\* id is stored and an error screen with a button back to the swap menu is
\* shown.
C4_ConfirmOutcome ==
    (/\ AwaitingRouteConfirmation(window)
     /\ connector.connected
     /\ PendingRequestId(data) = NoId
     /\ CanSend(Ctx, 1))
    => \A prep_ok \in BOOLEAN, send_ok \in BOOLEAN :
         (send_ok => CanRequest(Ctx))
         => LET after == confirm_transaction_handler(Ctx, prep_ok, send_ok)
            IN  IF prep_ok /\ send_ok
                  THEN /\ PendingRequestId(after.data) # NoId
                       /\ after.conn.pending = connector.pending
                                                 \cup {PendingRequestId(after.data)}
                       /\ AwaitingWalletConfirmation(after.window)
                  ELSE /\ PendingRequestId(after.data) = NoId
                       /\ after.window \in ErrorScreens
                       /\ "swap_menu" \in Buttons(after.window)

\* the request rid is cancelled first, the main menu rendered after it
CancelledThenMainMenu(x, rid) ==
    /\ rid \notin x.conn.pending
    /\ \E i \in DOMAIN x.effects :
         /\ x.effects[i] = <<"call", "cancelPending">>
         /\ \E j \in Renders(x.effects) : i < j /\ x.effects[j][2] = "main_menu"

\* C5: a Cancel press (callback cancel or cancel_transaction) while a wallet
\* request of the session is pending issues cancelPending for that request
\* before the main menu is rendered.
C5_CancelCancelsPending ==
    \A rid \in connector.pending :
      (connector.connected /\ connector.pending = {rid} /\ CanSend(Ctx, 1))
      => /\ CancelledThenMainMenu(cq_cancel_transaction(Ctx, TRUE), rid)
         /\ \A m \in PressedMessages(Ctx) : CancelledThenMainMenu(cq_cancel(Ctx, m), rid)

\* C6: when the cancelPending call of a Cancel press fails, the session
\* still leaves the wallet-confirmation screen and the main menu is rendered.
C6_FailedCancelStillLeaves ==
    (/\ AwaitingWalletConfirmation(window)
     /\ connector.connected
     /\ is_transaction_pending(connector, PendingRequestId(data))
     /\ CanSend(Ctx, 1))
    => LET after == cq_cancel_transaction(Ctx, FALSE)
       IN  MainMenu(after.window) /\ Rendered(after.effects, "main_menu")

\* C7: a Disconnected event on any screen renders the reconnect prompt and
\* leaves rpc_request_id and route cleared, whatever they held.
C7_DisconnectClearsPending ==
    (connector.connected /\ CanSend(Ctx, 1))
    => LET after == disconnect_event(Ctx)
       IN  /\ Disconnected(after.window)
           /\ Rendered(after.effects, "connect_wallet")
           /\ PendingRequestId(after.data) = NoId
           /\ ~Has(after.data, "route")

\* C8: after a quote and a Confirm, TransactionConfirmed takes the session
\* off the wallet-confirmation screen with route and rpc_request_id cleared
\* and the success screen rendered.
C8_ConfirmedClearsRoute ==
    \A rid \in connector.pending :
      (AwaitingWalletConfirmation(window) /\ Has(data, "route") /\ CanSend(Ctx, 1))
      => LET after == transaction_event(Ctx, rid)
         IN  /\ ~AwaitingWalletConfirmation(after.window)
             /\ Rendered(after.effects, "transaction_sent")
             /\ "main_menu" \in Buttons(after.window)
             /\ PendingRequestId(after.data) = NoId
             /\ ~Has(after.data, "route")

\* the session is on a screen that awaits nothing and offers a button, with
\* no request id stored
SafeScreen(x) ==
    /\ ~AwaitingWalletConfirmation(x.window)
    /\ ~AwaitingRouteConfirmation(x.window)
    /\ Buttons(x.window) # {}
    /\ PendingRequestId(x.data) = NoId

\* C9: after a wallet-protocol error (TransactionFailed, ConnectFailed,
\* DisconnectFailed; user rejection, timeout or other) the session is on a
\* non-awaiting screen with an actionable button and no pendingRequestId.
C9_ErrorLeavesSafeScreen ==
    CanSend(Ctx, 1)
    => \A error \in ErrorKinds :
         /\ \A rid \in connector.pending :
              SafeScreen(transaction_error_event(Ctx, rid, error))
         /\ connector.connect_req => SafeScreen(connect_error_event(Ctx, error))
         /\ connector.disconnect_req => SafeScreen(disconnect_error_event(Ctx, error))

\* task t is inside delete_last_message, past its read of last_message_id
\* and before its write
BetweenReadAndWrite(t) == tasks[t].pc \in {"delete", "update"}

\* C10: the events of one user are handled serially: no handler reads the
\* user's data while another is between its read and its write of it, so
\* no update is lost: once every handler has returned, the only message
\* left in the chat is the one last_message_id names.
C10_HandlersSerial ==
    /\ \A t1 \in DOMAIN tasks, t2 \in DOMAIN tasks :
         (BetweenReadAndWrite(t1) /\ BetweenReadAndWrite(t2)) => t1 = t2
    /\ (\A t \in DOMAIN tasks : tasks[t].pc = "idle")
         => chat \subseteq {Get(data, "last_message_id", NoId)}

(***************************************************************************)
(* Claims about the draft, the quote and the options                       *)
(***************************************************************************)
\* the draft of the session: the four entries, None where absent
Draft(d) ==
    [token1    |-> Get(d, "token1", None),
     token2    |-> Get(d, "token2", None),
     amount    |-> Get(d, "amount", None),
     direction |-> Get(d, "direction", None)]

\* C11: the stored route is set only by a successful quote and is absent
\* after every draft mutation (a token, the amount or the direction changed,
\* by guided edit or by free-text extraction) and after confirm and cancel;
\* hence a stored route was quoted for the tokens of the current draft.
C11_RouteFollowsDraft ==
    /\ (~Has(data, "route") /\ CanSend(Ctx, 1))
         => \A outcome \in {"empty", "error"} :
              ~Has(build_route_handler(Ctx, TOKENS, outcome).data, "route")
    /\ (Has(data, "route") /\ CanSend(Ctx, 2))
         => /\ \A text \in TokenTexts :
                 /\ (fsm_state = "token1" /\ Draft(token1_input_handler(Ctx, TOKENS, text).data)
                                               # Draft(data))
                      => ~Has(token1_input_handler(Ctx, TOKENS, text).data, "route")
                 /\ (fsm_state = "token2" /\ Draft(token2_input_handler(Ctx, TOKENS, text).data)
                                               # Draft(data))
                      => ~Has(token2_input_handler(Ctx, TOKENS, text).data, "route")
            /\ \A text \in AmountTexts :
                 (fsm_state = "amount" /\ Draft(amount_input_handler(Ctx, text).data)
                                            # Draft(data))
                   => ~Has(amount_input_handler(Ctx, text).data, "route")
            /\ ~Has(edit_direction_handler(Ctx).data, "route")
            /\ \A user_text \in SwapTexts, r \in Extractions :
                 (fsm_state = "waiting_for_swap_text"
                    /\ Draft(process_swap_text(Ctx, TOKENS, user_text, r).data) # Draft(data))
                   => ~Has(process_swap_text(Ctx, TOKENS, user_text, r).data, "route")
            /\ \A prep_ok \in BOOLEAN, send_ok \in BOOLEAN :
                 (send_ok => CanRequest(Ctx))
                   => ~Has(confirm_transaction_handler(Ctx, prep_ok, send_ok).data, "route")
            /\ \A m \in PressedMessages(Ctx) : ~Has(cq_cancel(Ctx, m).data, "route")
    /\ Has(data, "route")
         => /\ data.route.input_token = TokenAddress(TOKENS, Get(data, "token1", None))
            /\ data.route.output_token = TokenAddress(TOKENS, Get(data, "token2", None))

\* the quote of build_route_handler is issued and may come back as outcome
QuoteReturns(outcome) ==
    /\ CanSend(Ctx, 1)
    /\ Has(data, "amount")
    /\ ParseFloat(Get(data, "amount", None)).ok
    /\ outcome \in QuoteOutcomes(TokenAddress(TOKENS, Get(data, "token1", None)),
                                 TokenAddress(TOKENS, Get(data, "token2", None)))

\* the entry k of the data dict is as the handler found it
Kept(x, k) == Opt(x.data, k) = Opt(data, k)

\* C12: when build_route gets a quote with empty or absent paths, the
\* session stays where it was (FSM state, draft, back target), the "route
\* not found" message is rendered, the stored route is left as it was and
\* no route-confirmation message is shown.
C12_EmptyQuoteKeepsRoute ==
    QuoteReturns("empty")
    => LET after == build_route_handler(Ctx, TOKENS, "empty")
       IN  /\ ~after.raised
           /\ after.fsm = fsm_state
           /\ Draft(after.data) = Draft(data)
           /\ Kept(after, "back_state")
           /\ Kept(after, "route")
           /\ Rendered(after.effects, "route_not_found")
           /\ ~Rendered(after.effects, "route")
           /\ ~AwaitingRouteConfirmation(after.window)

\* C12 witness: an empty quote has been answered with the "route not found"
\* message while no route is stored
C12_Witness ==
    /\ window = "route_not_found"
    /\ ~Has(data, "route")
    /\ Has(data, "amount")

\* C13: when the quote of build_route fails with a transport or HTTP error,
\* the handler deals with it: no exception leaves it, it renders a retry
\* message that is not the "route not found" message, and the session stays
\* where it was.
C13_QuoteErrorHandled ==
    QuoteReturns("error")
    => LET after == build_route_handler(Ctx, TOKENS, "error")
       IN  /\ ~after.raised
           /\ Renders(after.effects) # {}
           /\ ~Rendered(after.effects, "route_not_found")
           /\ ~Rendered(after.effects, "route")
           /\ after.fsm = fsm_state
           /\ Kept(after, "route")

\* integer and decimal texts on both sides of every policy bound
OptionIntTexts == {"5", "20", "1", "25", "0", "-3", "6"}

OptionFloatTexts == {"0.05", "0", "1", "2", "-5", "nan", "inf"}

\* the options window was rendered showing max_splits = v
ShowsMaxSplits(eff, v) ==
    \E i \in Renders(eff) : eff[i][2] = "swap_options" /\ eff[i][3].max_splits = v

\* C14: in the state setting_max_splits an integer v within [1,20] is
\* stored as max_splits and the options read back (the options window) show
\* v; an integer outside [1,20] leaves the stored max_splits as it was and
\* renders the validation-error window.
C14_MaxSplitsRoundTrip ==
    (fsm_state = "setting_max_splits" /\ CanSend(Ctx, 1))
    => \A text \in OptionIntTexts :
         LET v     == ParseInt(text).value
             after == set_max_splits(Ctx, text)
         IN  IF v \in 1..20
               THEN /\ Opt(after.data, "max_splits") = <<v>>
                    /\ ShowsMaxSplits(after.effects, v)
               ELSE /\ Kept(after, "max_splits")
                    /\ Rendered(after.effects, "error_max_splits")

\* a float within [0,1]
InUnitInterval(f) == f.cls = "finite" /\ 0 <= f.value /\ f.value <= 100

\* the stored options are within the policy bounds
InPolicy(d) ==
    /\ Has(d, "slippage") => InUnitInterval(d.slippage)
    /\ Has(d, "max_splits") => d.max_splits \in 1..20
    /\ Has(d, "max_length") => d.max_length \in 2..5

\* C15: the stored options are always within the policy bounds (slippage in
\* [0,1], max_splits in [1,20], max_length in [2,5]), and an input below the
\* lower or above the upper bound of its option is rejected with the stored
\* value unchanged.
C15_OptionsWithinBounds ==
    /\ InPolicy(data)
    /\ (fsm_state = "setting_max_splits" /\ CanSend(Ctx, 1))
         => \A text \in OptionIntTexts :
              ParseInt(text).value \notin 1..20
                => /\ Kept(set_max_splits(Ctx, text), "max_splits")
                   /\ Rendered(set_max_splits(Ctx, text).effects, "error_max_splits")
    /\ (fsm_state = "setting_max_length" /\ CanSend(Ctx, 1))
         => \A text \in OptionIntTexts :
              ParseInt(text).value \notin 2..5
                => /\ Kept(set_max_length(Ctx, text), "max_length")
                   /\ Rendered(set_max_length(Ctx, text).effects, "error_max_length")
    /\ (fsm_state = "setting_slippage" /\ CanSend(Ctx, 1))
         => \A text \in OptionFloatTexts :
              ~InUnitInterval(ParseFloat(text).value)
                => /\ Kept(set_slippage(Ctx, text), "slippage")
                   /\ Rendered(set_slippage(Ctx, text).effects, "error_slippage")

\* the arguments the handler passed to the adapter operation op
ArgsOf(eff, op) ==
    {eff[i][3] : i \in {j \in DOMAIN eff : eff[j][1] = "args" /\ eff[j][2] = op}}

\* the user has set no option: what is stored, if anything, is the default
\* the code itself wrote
NeverSetOption(d) ==
    /\ ~Has(d, "max_splits")
    /\ ~Has(d, "max_length")
    /\ Get(d, "slippage", Finite(5)) = Finite(5)

\* C16: in a session whose user never set an option, every quote build_route
\* issues carries max_splits = 1 and max_length = 2 and every prepare
\* Confirm issues carries slippage = 0.05, whether the draft came from the
\* swap menu or from a free-text request.
C16_DefaultOptionsUsed ==
    (NeverSetOption(data) /\ CanSend(Ctx, 1))
    => /\ \A outcome \in {"route", "empty", "error"} :
            ArgsOf(build_route_handler(Ctx, TOKENS, outcome).effects, "quote")
              \subseteq {[max_splits |-> <<1>>, max_length |-> <<2>>]}
       /\ \A prep_ok \in BOOLEAN, send_ok \in BOOLEAN :
            (send_ok => CanRequest(Ctx))
              => ArgsOf(confirm_transaction_handler(Ctx, prep_ok, send_ok).effects,
                        "prepare")
                   \subseteq {[slippage |-> <<Finite(5)>>]}

\* what a token text does in the editing state of field: accepted, the
\* uppercased and trimmed symbol is stored and the swap menu is shown with no
\* FSM state left; refused, an error is shown and state and draft stay
TokenEntryNormalised(after, field, text) ==
    IF StripUpper(text) \in DOMAIN TOKENS
      THEN /\ Get(after.data, field, None) = StripUpper(text)
           /\ after.fsm = None
           /\ after.window = "swap_menu"
           /\ Rendered(after.effects, "swap_menu")
      ELSE /\ Rendered(after.effects, "invalid_token")
           /\ ~Rendered(after.effects, "swap_menu")
           /\ after.fsm = fsm_state
           /\ Draft(after.data) = Draft(data)

\* C17: in the token1 / token2 editing state a text is uppercased and trimmed
\* before the registry lookup: when that form is a key of the registry it is
\* stored as the uppercased symbol and the session moves to the swap menu;
\* when it is not (e.g. "FAKE") an error is shown, the editing state stays
\* and the draft is unchanged.
C17_TokenEntryNormalised ==
    CanSend(Ctx, 2)
    => \A text \in TokenTexts :
         /\ fsm_state = "token1"
              => TokenEntryNormalised(token1_input_handler(Ctx, TOKENS, text), "token1", text)
         /\ fsm_state = "token2"
              => TokenEntryNormalised(token2_input_handler(Ctx, TOKENS, text), "token2", text)

\* C17 witness: the first token is USDT, which only a text typed in the
\* token1 state stores, and the swap menu is back on screen
C17_Witness ==
    /\ Get(data, "token1", None) = "USDT"
    /\ fsm_state = None
    /\ window = "swap_menu"

\* the text reads as a positive finite decimal
PositiveFinite(text) ==
    /\ ParseFloat(text).ok
    /\ ParseFloat(text).value.cls = "finite"
    /\ ParseFloat(text).value.value > 0

\* texts for the amount, among them the non-positive, the unparsable and the
\* non-finite ones
AmountEntryTexts == {"10", "0", "-5", "abc", "nan", "inf"}

\* the refused amount text left the session as it was and asked again
AmountRefused(after) ==
    /\ Rendered(after.effects, "invalid_amount")
    /\ after.fsm = "amount"
    /\ Draft(after.data) = Draft(data)
    /\ Kept(after, "slippage")
    /\ Kept(after, "max_splits")
    /\ Kept(after, "max_length")
    /\ Kept(after, "route")

\* C18: in the amount editing state a text that does not read as a positive
\* finite decimal (non-positive, unparsable or non-finite) is refused with a
\* new prompt: the state stays "amount" and the draft, the options and the
\* stored route are unchanged.
C18_BadAmountRefused ==
    (fsm_state = "amount" /\ CanSend(Ctx, 2))
    => \A text \in AmountEntryTexts :
         ~PositiveFinite(text) => AmountRefused(amount_input_handler(Ctx, text))

\* C19: in every reachable state the amount of the draft is absent or reads
\* as a positive decimal, whichever handler stored it: the free-text request
\* validates the extracted amount as the amount prompt does, so a
\* non-positive or non-numeric extracted amount is not stored.
C19_AmountPositive ==
    Has(data, "amount") => PositiveFinite(Get(data, "amount", None))

\* the extraction failed or is malformed: no JSON object in the answer,
\* unparsable JSON, a required field missing, or a token that is not a key of
\* the registry
MalformedExtraction(r) ==
    \/ r.kind \in {"no_json", "bad_json", "missing_field"}
    \/ /\ r.kind = "fields"
       /\ \/ Upper(r.input_token) \notin DOMAIN TOKENS
          \/ Upper(r.output_token) \notin DOMAIN TOKENS

\* C20: a failed or malformed free-text extraction is answered with an error
\* and the prompt for a new text, and leaves token1, token2, amount and
\* direction of the draft exactly as they were before the message.
C20_FailedExtractionKeepsDraft ==
    (fsm_state = "waiting_for_swap_text" /\ CanSend(Ctx, 1))
    => \A user_text \in SwapTexts, r \in Extractions :
         MalformedExtraction(r)
           => LET after == process_swap_text(Ctx, TOKENS, user_text, r)
              IN  /\ ~after.raised
                  /\ Draft(after.data) = Draft(data)
                  /\ \/ Rendered(after.effects, "error_format")
                     \/ Rendered(after.effects, "error_value")
                  /\ ~Rendered(after.effects, "confirm_swap")
                  /\ Rendered(after.effects, "swap_example")
                  /\ after.fsm = "waiting_for_swap_text"

\* C20 witness: a free text has been taken and answered with the prompt for
\* a new one; no extraction has succeeded (none stores USDT as first token,
\* each stores a second token) and the first token typed before is there
C20_Witness ==
    /\ fsm_state = "waiting_for_swap_text"
    /\ window = "swap_example"
    /\ Has(data, "swap_text")
    /\ Get(data, "token1", None) = "USDT"
    /\ ~Has(data, "token2")

(***************************************************************************)
(* Claims about the token registry, the quote request and the screens      *)
(***************************************************************************)
\* C21: when a load of the token registry fails, the registry that readers
\* see afterwards is the last successfully loaded mapping: a step changes
\* TOKENS only to the mapping of a successful load, and never empties or
\* shrinks a registry loaded before.
C21_FailedLoadKeepsRegistry ==
    [][/\ TOKENS' # TOKENS => TOKENS' = _load_tokens(TRUE)
       /\ DOMAIN TOKENS \subseteq DOMAIN TOKENS']_vars

\* the draft names both tokens and an amount build_route can read
DraftComplete(d) ==
    /\ Has(d, "token1")
    /\ Has(d, "token2")
    /\ Has(d, "amount")
    /\ ParseFloat(Get(d, "amount", None)).ok

\* C22: a token symbol of the draft that does not resolve in the registry as
\* it is when build_route runs (accepted when entered, the registry rebuilt
\* or emptied since) is treated as invalid: build_route never calls the quote
\* with an input or output token address that is None.
C22_UnresolvedTokenNotQuoted ==
    (DraftComplete(data) /\ CanSend(Ctx, 1))
    => \A outcome \in {"route", "empty", "error"} :
         \A t \in ArgsOf(build_route_handler(Ctx, TOKENS, outcome).effects, "quote_tokens") :
           t.input_token # None /\ t.output_token # None

\* the bodies posted for the quotes among the effects of a handler
QuotePayloads(eff) ==
    {get_swap_route_payload(t.input_token, t.output_token, t.amount, t.is_input) :
       t \in ArgsOf(eff, "quote_tokens")}

\* C23: the quote takes the two addresses, the amount, max_splits, max_length
\* and the direction, and the request it sends to the aggregator carries the
\* max_splits and max_length it was called with: the routing options of the
\* session reach the aggregator on every build_route.
C23_QuoteCarriesOptions ==
    (DraftComplete(data) /\ CanSend(Ctx, 1))
    => \A outcome \in {"route", "empty", "error"} :
         LET eff == build_route_handler(Ctx, TOKENS, outcome).effects
         IN  \A a \in ArgsOf(eff, "quote"), p \in QuotePayloads(eff) :
               /\ Opt(p, "max_splits") = a.max_splits
               /\ Opt(p, "max_length") = a.max_length

\* the handler that ended in after has sent a message: it is recorded as the
\* last message, and the message recorded before it is gone from the chat
OneLivePrompt(after) ==
    LET before == Get(data, "last_message_id", NoId)
    IN  (~after.raised /\ after.msg # NoId)
        => /\ Get(after.data, "last_message_id", NoId) = after.msg
           /\ (before \in chat /\ before # after.msg) => before \notin after.chat

\* C24: at most one live prompt per session: when a handler has finished, the
\* message it sent last is the one last_message_id names and the screen sent
\* before it has been retracted; so for the route summary of build_route,
\* the transaction-sent screen and the prompts for the option values.
C24_OneLivePrompt ==
    CanSend(Ctx, 1)
    => /\ DraftComplete(data)
            => \A outcome \in {"route", "empty"} :
                 OneLivePrompt(build_route_handler(Ctx, TOKENS, outcome))
       /\ \A rid \in connector.pending : OneLivePrompt(transaction_event(Ctx, rid))
       /\ window = "swap_options"
            => /\ OneLivePrompt(cq_set_max_splits(Ctx))
               /\ OneLivePrompt(cq_set_max_length(Ctx))
               /\ OneLivePrompt(cq_set_slippage(Ctx))

\* the FSM states in which a text is read as the value of an option
SettingStates == {"setting_slippage", "setting_max_splits", "setting_max_length"}

\* the value text has been taken: the option holds it, the options window is
\* shown and the session is in no setting state any more
OptionTaken(after, k, v) ==
    /\ Opt(after.data, k) = <<v>>
    /\ after.fsm \notin SettingStates
    /\ after.window = "swap_options"

\* the value text has been refused: same state, the option as it was, and an
\* error window with the button that asks again
OptionRefused(after, k, kind, retry) ==
    /\ after.fsm = fsm_state
    /\ Kept(after, k)
    /\ Rendered(after.effects, kind)
    /\ retry \in Buttons(after.window)

\* C25: in a setting state an in-range value updates the option and the
\* session leaves the setting state for the screen it came from, so that a
\* later text is not read as another value; an out-of-range or non-numeric
\* value leaves the session in the same setting state with a validation
\* error and a retry button.
C25_OptionEntryLeavesState ==
    CanSend(Ctx, 1)
    => /\ fsm_state = "setting_max_splits"
            => \A text \in OptionIntTexts \cup {"abc"} :
                 LET v     == ParseInt(text)
                     after == set_max_splits(Ctx, text)
                 IN  IF v.ok /\ v.value \in 1..20
                       THEN OptionTaken(after, "max_splits", v.value)
                       ELSE OptionRefused(after, "max_splits", "error_max_splits",
                                          "set_max_splits")
       /\ fsm_state = "setting_max_length"
            => \A text \in OptionIntTexts \cup {"abc"} :
                 LET v     == ParseInt(text)
                     after == set_max_length(Ctx, text)
                 IN  IF v.ok /\ v.value \in 2..5
                       THEN OptionTaken(after, "max_length", v.value)
                       ELSE OptionRefused(after, "max_length", "error_max_length",
                                          "set_max_length")
       /\ fsm_state = "setting_slippage"
            => \A text \in OptionFloatTexts \cup {"abc"} :
                 LET v     == ParseFloat(text)
                     after == set_slippage(Ctx, text)
                 IN  IF v.ok /\ InUnitInterval(v.value)
                       THEN OptionTaken(after, "slippage", v.value)
                       ELSE OptionRefused(after, "slippage", "error_slippage",
                                          "set_slippage")

\* C26: Back follows a one-level back-stack: pressed on the options window it
\* returns to the screen the options were opened from (the swap menu or the
\* main menu, the screen back_state records), whichever setting state was
\* visited in between, and it never puts the session into the state that
\* waits for a free-text swap request.
C26_BackOneLevel ==
    (window = "swap_options" /\ connector.connected /\ CanSend(Ctx, 1))
    => LET after == cq_back(Ctx)
       IN  /\ Get(data, "back_state", None) = "swap_menu" => after.window = "swap_menu"
           /\ Get(data, "back_state", None) = "main_menu" => after.window = "main_menu"
           /\ fsm_state # "waiting_for_swap_text" => after.fsm # "waiting_for_swap_text"

\* the handler answered the error with a screen that offers a button
ErrorScreenWithButton(after) ==
    /\ ~after.raised
    /\ Renders(after.effects) # {}
    /\ Buttons(after.window) # {}

\* C27: every session-level error (a refused token, amount or option value,
\* route not found, a transaction that could not be built or sent, a wallet
\* error, a failed extraction) ends in a rendered screen that carries at
\* least one button; nothing but the drop of a stale wallet event is handled
\* without a render.
C27_ErrorScreenHasButton ==
    /\ CanSend(Ctx, 2)
         => /\ fsm_state = "token1"
                 => ErrorScreenWithButton(token1_input_handler(Ctx, TOKENS, "FAKE"))
            /\ fsm_state = "token2"
                 => ErrorScreenWithButton(token2_input_handler(Ctx, TOKENS, "FAKE"))
            /\ fsm_state = "amount"
                 => \A text \in {"0", "abc"} :
                      ErrorScreenWithButton(amount_input_handler(Ctx, text))
    /\ CanSend(Ctx, 1)
         => /\ fsm_state = "setting_max_splits"
                 => \A text \in {"25", "abc"} :
                      ErrorScreenWithButton(set_max_splits(Ctx, text))
            /\ fsm_state = "setting_max_length"
                 => \A text \in {"6", "abc"} :
                      ErrorScreenWithButton(set_max_length(Ctx, text))
            /\ fsm_state = "setting_slippage"
                 => \A text \in {"2", "abc"} :
                      ErrorScreenWithButton(set_slippage(Ctx, text))
            /\ QuoteReturns("empty")
                 => ErrorScreenWithButton(build_route_handler(Ctx, TOKENS, "empty"))
            /\ \A prep_ok \in BOOLEAN, send_ok \in BOOLEAN :
                 (AwaitingRouteConfirmation(window) /\ ~(prep_ok /\ send_ok)
                    /\ (send_ok => CanRequest(Ctx)))
                 => ErrorScreenWithButton(confirm_transaction_handler(Ctx, prep_ok, send_ok))
            /\ \A error \in ErrorKinds :
                 /\ \A rid \in connector.pending :
                      rid = PendingRequestId(data)
                        => ErrorScreenWithButton(transaction_error_event(Ctx, rid, error))
                 /\ connector.connect_req
                      => ErrorScreenWithButton(connect_error_event(Ctx, error))
                 /\ connector.disconnect_req
                      => ErrorScreenWithButton(disconnect_error_event(Ctx, error))
            /\ fsm_state = "waiting_for_swap_text"
                 => \A user_text \in SwapTexts, r \in Extractions :
                      MalformedExtraction(r)
                        => ErrorScreenWithButton(process_swap_text(Ctx, TOKENS, user_text, r))

\* C28: build_route is guarded against an incomplete draft: when the input
\* token, the output token or the amount is not set, it does not call the
\* quote and does not fault, and the session stays as it was with the
\* stored route unchanged.
C28_IncompleteDraftGuarded ==
    (CanSend(Ctx, 1)
       /\ "build_route" \in Buttons(window)
       /\ (~Has(data, "token1") \/ ~Has(data, "token2") \/ ~Has(data, "amount")))
    => \A outcome \in {"route", "empty", "error"} :
         LET after == build_route_handler(Ctx, TOKENS, outcome)
         IN  /\ ~after.raised
             /\ Calls(after.effects, "quote") = 0
             /\ after.fsm = fsm_state
             /\ Draft(after.data) = Draft(data)
             /\ Kept(after, "route")

\* the body p carries the amount under the key of its direction only, and
\* the two addresses it was given under input_token and output_token
OneDirection(p, t) ==
    /\ IF t.is_input
         THEN Opt(p, "input_amount") = <<t.amount>> /\ "output_amount" \notin DOMAIN p
         ELSE Opt(p, "output_amount") = <<t.amount>> /\ "input_amount" \notin DOMAIN p
    /\ p.input_token.address = t.input_token
    /\ p.output_token.address = t.output_token

\* C29: the quote request carries the amount in exactly one direction field:
\* input_amount and no output_amount when is_input is true, output_amount
\* and no input_amount when it is false; its token addresses are the ones
\* passed in, the input one as input_token and the output one as
\* output_token.
C29_AmountInOneDirection ==
    (DraftComplete(data) /\ CanSend(Ctx, 1))
    => \A outcome \in {"route", "empty", "error"} :
         \A t \in ArgsOf(build_route_handler(Ctx, TOKENS, outcome).effects, "quote_tokens") :
           OneDirection(get_swap_route_payload(t.input_token, t.output_token,
                                               t.amount, t.is_input), t)

\* C29 witness: a route has just been quoted for an amount to receive
C29_Witness ==
    /\ window = "route"
    /\ Has(data, "route")
    /\ Get(data, "direction", None) = "output"

\* the call ended as the claim has it for the upstream answer
RaisesUnlessSucceeded(upstream, end) ==
    /\ upstream \in {"http_error", "transport_failure"}
         => end.raised = "SwapCoffeeException" /\ end.returns = None
    /\ end.returns # None => upstream = "ok" /\ end.raised = None

\* C30: get_tokens, get_swap_route and get_prepared_transaction never return
\* a result when the upstream answers with an HTTP error or the transport
\* fails: each raises SwapCoffeeException; they return the decoded response
\* only when the request succeeded.
C30_AdapterRaisesOnFailure ==
    \A upstream \in Upstream :
      \* the load of the registry at the start of a run
      /\ \A end \in get_tokens(upstream) : RaisesUnlessSucceeded(upstream, end)
      \* the quote build_route asks for the draft of the session
      /\ (DraftComplete(data) /\ CanSend(Ctx, 1))
           => \A end \in get_swap_route_request(upstream) :
                RaisesUnlessSucceeded(upstream, end)
      \* the prepare that Confirm asks for the stored route
      /\ Has(data, "route")
           => \A end \in get_prepared_transaction(upstream) :
                RaisesUnlessSucceeded(upstream, end)

\* C30 witness: the session holds a token accepted from a loaded registry,
\* and a later get_tokens() has raised, which left the registry empty
C30_Witness ==
    /\ TOKENS = EmptyTokens
    /\ Has(data, "token1")

(***************************************************************************)
(* C31: the order of the steps of initiate_swap_transaction                *)
(***************************************************************************)
\* the remote calls of an invocation, in the order they were made
CallOrder(eff) ==
    LET calls == SelectSeq(eff, LAMBDA e : e[1] = "call")
    IN  [i \in DOMAIN calls |-> calls[i][2]]

\* the steps that ran are a beginning of quote, prepare, sendTransaction
InStepOrder(eff) ==
    CallOrder(eff) \in { <<"quote">>,
                         <<"quote", "prepare">>,
                         <<"quote", "prepare", "sendTransaction">> }

====
